---- MODULE Spec2Model ----
(***************************************************************************)
(* A model of the Oba bytecode interpreter: the single-pass Pratt compiler *)
(* (src/unnamed/part_003) and the stack VM (src/src/vm/oba_vm.c).          *)
(*                                                                         *)
(* The compiler is a pure function of the token stream and is modelled by  *)
(* operators over a record holding the Parser and Compiler fields and the  *)
(* chunk being written.  The VM is a state machine with one action per     *)
(* case of the dispatch switch of run(), one for obaInterpret and one for  *)
(* obaNewVM's result as the initial state.                                 *)
(***************************************************************************)
EXTENDS Integers, Sequences, FiniteSets, TLC

\* ------------------------------------------------------------------------
\* Bounds of the model
\* ------------------------------------------------------------------------

\* Size of the value stack.  The source sets 256 (part_001:11); the model
\* scales it down so that a full stack is reached by short programs.
STACK_MAX == 4

\* Size of the frame array.  The source sets 256 (part_001:12); scaled down.
FRAMES_MAX == 3

\* Number of obaInterpret calls made on the VM.
MaxRuns == 2

\* Number of statements compiled over the life of the VM.
MaxStmts == 2

\* Number of obaInterpret calls that define or read one global each.
MaxGlobalRuns == 3

\* Number of infix operators in an expression given to the compiler.
MaxOps == 2

\* Number of lines of a source text with errors given to the compiler.
MaxLines == 2

\* Number of characters, before the terminating NUL, of a source text
\* given to the lexer.
MaxChars == 3

\* ------------------------------------------------------------------------
\* Values (oba_value.h is not part of the sources; the VM uses the
\* predicates IS_NUMBER, IS_BOOL, IS_STRING, IS_OBJ/OBJ_TYPE on them)
\* ------------------------------------------------------------------------

NULL == 0

RECURSIVE BitXor(_, _)
\* Bitwise exclusive or of two naturals.
BitXor(a, b) ==
  IF a = 0 THEN b
  ELSE IF b = 0 THEN a
  ELSE (((a % 2) + (b % 2)) % 2) + 2 * BitXor(a \div 2, b \div 2)

\* The character codes of the characters the model's strings are made of.
CharCode(c) ==
  CASE c = "a" -> 97 [] c = "b" -> 98 [] c = "c" -> 99 [] c = "e" -> 101
    [] c = "g" -> 103 [] c = "i" -> 105 [] c = "k" -> 107 [] c = "l" -> 108
    [] c = "n" -> 110 [] c = "r" -> 114 [] c = "t" -> 116 [] c = "x" -> 120
    [] c = "y" -> 121 [] c = "z" -> 122 [] c = "\"" -> 34 [] OTHER -> 63

RECURSIVE fnv1a(_, _)
\* One round per byte of the 32-bit FNV-1a hash; h is <<high, low>>, the two
\* 16-bit halves of the hash, and the prime is 16777619 = 256 * 65536 + 403.
fnv1a(h, chars) ==
  IF chars = <<>> THEN h
  ELSE LET lo == BitXor(h[2], CharCode(Head(chars)))
           prod == lo * 403
       IN fnv1a(<<(h[1] * 403 + lo * 256 + (prod \div 65536)) % 65536,
                  prod % 65536>>,
                Tail(chars))

\* The hash of a string: FNV-1a from the offset basis 2166136261.
hashString(chars) == fnv1a(<<33052, 40389>>, chars)

RECURSIVE GCD(_, _)
GCD(a, b) == IF b = 0 THEN a ELSE GCD(b, a % b)

Abs(a) == IF a < 0 THEN -a ELSE a

\* A Value: t is the type tag; n over d is the payload of a number (a
\* double, kept as a fraction in lowest terms, d = 0 for a division by
\* zero), n is 0/1 for a boolean and the object for a function; s and hash
\* are the characters and the hash of a string object.
Value(t, n, d, s, h) == [t |-> t, n |-> n, d |-> d, s |-> s, hash |-> h]

OBA_NUMBER(n) == Value("num", n, 1, <<>>, <<0, 0>>)
OBA_BOOL(b) == Value("bool", IF b THEN 1 ELSE 0, 1, <<>>, <<0, 0>>)
OBJ_STRING(chars) == Value("str", 0, 1, chars, hashString(chars))
OBJ_FUNCTION(fid) == Value("fn", fid, 1, <<>>, <<0, 0>>)
\* The all-zero Value left by memset in obaNewVM.
ZeroValue == Value("zero", 0, 1, <<>>, <<0, 0>>)

\* The fraction n/d as a number Value.
Fraction(n, d) ==
  IF d = 0 THEN Value("num", IF n > 0 THEN 1 ELSE IF n < 0 THEN -1 ELSE 0, 0,
                      <<>>, <<0, 0>>)
  ELSE LET g == GCD(Abs(n), Abs(d))
           sign == IF d < 0 THEN -1 ELSE 1
       IN Value("num", sign * (n \div g), sign * (d \div g), <<>>, <<0, 0>>)

\* newClosure: a closure of the function, with one NULL upvalue for each
\* of the function's upvalueCount, which newFunction sets to 0.
newClosure(function) == Value("closure", function, 1, <<>>, <<0, 0>>)

IS_NUMBER(v) == v.t = "num"
IS_BOOL(v) == v.t = "bool"
IS_STRING(v) == v.t = "str"
IS_FUNCTION(v) == v.t = "fn"
IS_CLOSURE(v) == v.t = "closure"
AS_BOOL(v) == v.n = 1

\* valuesEqual: same tag and same payload; strings compare by content.
valuesEqual(a, b) == a = b

\* ------------------------------------------------------------------------
\* Chunk bytes.  An opcode byte is kept by name (oba_opcodes.h, which
\* numbers them, is not part of the sources); an operand byte by value.
\* ------------------------------------------------------------------------

Op(name) == [op |-> name, b |-> 0]
Byte(n) == [op |-> "BYTE", b |-> n % 256]

\* ------------------------------------------------------------------------
\* Tokens
\* ------------------------------------------------------------------------

Tok(type) == [type |-> type, lexeme |-> <<>>, value |-> 0]
TokNumber(n) == [type |-> "TOK_NUMBER", lexeme |-> <<>>, value |-> n]
TokIdent(chars) == [type |-> "TOK_IDENT", lexeme |-> chars, value |-> 0]
\* The lexeme of a string token includes both quotes.
TokString(chars) ==
  [type |-> "TOK_STRING", lexeme |-> <<"\"">> \o chars \o <<"\"">>, value |-> 0]

\* Precedence levels.
PREC_NONE == 0
PREC_LOWEST == 1
PREC_COND == 2
PREC_SUM == 3
PREC_PRODUCT == 4

\* rules[]: the prefix handler of a token type ("" for NULL).
RulePrefix(type) ==
  CASE type = "TOK_NOT" -> "unaryOp"
    [] type = "TOK_LPAREN" -> "grouping"
    [] type = "TOK_IDENT" -> "identifier"
    [] type \in {"TOK_NUMBER", "TOK_TRUE", "TOK_FALSE"} -> "literal"
    [] type = "TOK_STRING" -> "string"
    [] OTHER -> ""

\* rules[]: the infix precedence of a token type.
\* The rules table with the precedences of the sum and the product
\* operators exchanged.
RulePrecedenceSwapped(type) ==
  CASE type \in {"TOK_ASSIGN", "TOK_GT", "TOK_LT", "TOK_GTE", "TOK_LTE",
                 "TOK_EQ", "TOK_NEQ"} -> PREC_COND
    [] type \in {"TOK_PLUS", "TOK_MINUS"} -> PREC_PRODUCT
    [] type \in {"TOK_MULTIPLY", "TOK_DIVIDE"} -> PREC_SUM
    [] OTHER -> PREC_NONE

RulePrecedence(type) ==
  CASE type \in {"TOK_ASSIGN", "TOK_GT", "TOK_LT", "TOK_GTE", "TOK_LTE",
                 "TOK_EQ", "TOK_NEQ"} -> PREC_COND
    [] type \in {"TOK_PLUS", "TOK_MINUS"} -> PREC_SUM
    [] type \in {"TOK_MULTIPLY", "TOK_DIVIDE"} -> PREC_PRODUCT
    [] OTHER -> PREC_NONE

\* ------------------------------------------------------------------------
\* The compiler, as operators on the record p:
\*   toks, pos           the token stream and the index of the next token
\*   current, previous   Parser.current, Parser.previous
\*   hasError            Parser.hasError
\*   code, constants     the chunk written so far
\*   localCount, currentScope   the Compiler fields
\*   marks               where each statement's code starts and ends
\*   errors              the number of calls of lexError and error
\* ------------------------------------------------------------------------

\* obaCompile's initialisation of the Parser and initCompiler.
initCompiler(toks) ==
  [toks |-> toks, pos |-> 1,
   current |-> Tok("TOK_ERROR"), previous |-> Tok("TOK_ERROR"),
   hasError |-> FALSE, code |-> <<>>, constants |-> <<>>,
   localCount |-> 0, currentScope |-> 0, marks |-> <<>>, errors |-> 0]

\* nextToken, on a source already split into tokens: an ERROR token is the
\* default case of the lexer's switch, which calls lexError.
nextToken(p) ==
  LET p1 == [p EXCEPT !.previous = p.current] IN
  IF p.current.type = "TOK_EOF" THEN p1
  ELSE IF p.pos > Len(p.toks) THEN [p1 EXCEPT !.current = Tok("TOK_EOF")]
  ELSE [p1 EXCEPT !.current = p.toks[p.pos],
                  !.pos = p.pos + 1,
                  !.hasError = p.hasError \/ p.toks[p.pos].type = "TOK_ERROR",
                  !.errors = IF p.toks[p.pos].type = "TOK_ERROR"
                             THEN p.errors + 1 ELSE p.errors]

error(p) == [p EXCEPT !.hasError = TRUE, !.errors = p.errors + 1]

peekType(p) == p.current.type

match(p, expected) == IF peekType(p) = expected THEN nextToken(p) ELSE p

RECURSIVE matchLine(_)
matchLine(p) ==
  IF peekType(p) = "TOK_NEWLINE" THEN matchLine(nextToken(p)) ELSE p

ignoreNewlines(p) == matchLine(p)

consume(p, expected) ==
  LET p1 == nextToken(p) IN
  IF p1.previous.type # expected
  THEN LET p2 == error(p1) IN
       IF p2.current.type = expected THEN nextToken(p2) ELSE p2
  ELSE p1

emitByte(p, cell) == [p EXCEPT !.code = Append(p.code, cell)]

emitOp(p, name) == emitByte(p, Op(name))

\* addConstant: the new pool; the index returned is Len(constants) - 1.
addConstant(p, value) == [p EXCEPT !.constants = Append(p.constants, value)]

\* emitConstant without the OP_CONSTANT that pushes the constant.
emitConstantNoPush(p, value) == addConstant(p, value)

emitConstant(p, value) ==
  LET p1 == addConstant(p, value) IN
  emitByte(emitOp(p1, "OP_CONSTANT"), Byte(Len(p1.constants) - 1))

emitBool(p, value) ==
  IF AS_BOOL(value) THEN emitOp(p, "OP_TRUE") ELSE emitOp(p, "OP_FALSE")

defineGlobal(p, global) ==
  emitByte(emitOp(p, "OP_DEFINE_GLOBAL"), Byte(global))

\* addLocal copies locals[localCount] into a temporary and fills the copy:
\* only localCount changes.
addLocal(p) == [p EXCEPT !.localCount = p.localCount + 1]

\* declareVariable followed by defineVariable, as assignStmt calls them.
declareVariable(p, name) ==
  IF p.currentScope > 0 THEN addLocal(p) ELSE addConstant(p, name)

defineVariable(p, variable) ==
  IF p.currentScope > 0 THEN p ELSE defineGlobal(p, variable)

getGlobal(p, name) ==
  LET p1 == addConstant(p, name) IN
  emitByte(emitOp(p1, "OP_GET_GLOBAL"), Byte(Len(p1.constants) - 1))

getLocal(p, name) ==
  LET p1 == addConstant(p, name) IN
  emitByte(emitOp(p1, "OP_GET_LOCAL"), Byte(Len(p1.constants) - 1))

lookupLocal(p, name) == -1

getVariable(p, name) ==
  IF lookupLocal(p, name) < 0 THEN getGlobal(p, name) ELSE getLocal(p, name)

\* The opcode infixOp emits for an operator token ("" for the default case).
InfixOpcode(type) ==
  CASE type = "TOK_PLUS" -> "OP_ADD"
    [] type = "TOK_MINUS" -> "OP_MINUS"
    [] type = "TOK_MULTIPLY" -> "OP_MULTIPLY"
    [] type = "TOK_DIVIDE" -> "OP_DIVIDE"
    [] type = "TOK_GT" -> "OP_GT"
    [] type = "TOK_LT" -> "OP_LT"
    [] type = "TOK_GTE" -> "OP_GTE"
    [] type = "TOK_LTE" -> "OP_LTE"
    [] type = "TOK_EQ" -> "OP_EQ"
    [] type = "TOK_NEQ" -> "OP_NEQ"
    [] type = "TOK_ASSIGN" -> "OP_ASSIGN"
    [] OTHER -> ""

RECURSIVE parse(_, _), parseInfix(_, _), prefixRule(_), infixOp(_)

\* The while loop of parse.
parseInfix(p, precedence) ==
  IF precedence < RulePrecedence(p.current.type)
  THEN parseInfix(infixOp(nextToken(p)), precedence)
  ELSE p

parse(p, precedence) ==
  LET p1 == nextToken(p) IN
  IF RulePrefix(p1.previous.type) = "" THEN error(p1)
  ELSE parseInfix(prefixRule(p1), precedence)

expression(p) == parse(p, PREC_LOWEST)

\* The prefix handlers: grouping, string, identifier, literal, unaryOp.
prefixRule(p) ==
  LET type == p.previous.type
      rule == RulePrefix(type)
  IN CASE rule = "grouping" -> consume(parse(p, PREC_LOWEST), "TOK_RPAREN")
       [] rule = "string" ->
            emitConstant(p, OBJ_STRING(SubSeq(p.previous.lexeme, 2,
                                              Len(p.previous.lexeme) - 1)))
       [] rule = "identifier" -> getVariable(p, OBJ_STRING(p.previous.lexeme))
       [] rule = "literal" ->
            (CASE type = "TOK_TRUE" -> emitBool(p, OBA_BOOL(TRUE))
               [] type = "TOK_FALSE" -> emitBool(p, OBA_BOOL(FALSE))
               [] type = "TOK_NUMBER" ->
                    emitConstant(p, OBA_NUMBER(p.previous.value))
               [] OTHER -> error(p))
       [] rule = "unaryOp" ->
            LET p1 == parse(ignoreNewlines(p), RulePrecedence(type)) IN
            IF type = "TOK_NOT" THEN emitOp(p1, "OP_NOT") ELSE error(p1)

infixOp(p) ==
  LET opType == p.previous.type
      p1 == parse(ignoreNewlines(p), RulePrecedence(opType))
  IN IF InfixOpcode(opType) = "" THEN error(p1)
     ELSE emitOp(p1, InfixOpcode(opType))

assignStmt(p) ==
  LET p1 == consume(p, "TOK_IDENT")
      name == OBJ_STRING(p1.previous.lexeme)
      p2 == expression(consume(p1, "TOK_ASSIGN"))
      p3 == declareVariable(p2, name)
  IN defineVariable(p3, Len(p3.constants) - 1)

debugStmt(p) == emitOp(expression(p), "OP_DEBUG")

enterScope(p) == [p EXCEPT !.currentScope = p.currentScope + 1]
exitScope(p) == [p EXCEPT !.currentScope = p.currentScope - 1]

\* A statement's mark: its kind, the scope it is compiled in and the code
\* offsets of its first byte and of the byte after its last.
Mark(p, kind, from, p1) ==
  [p1 EXCEPT !.marks = Append(p1.marks,
     [kind |-> kind, scope |-> p.currentScope, from |-> from,
      to |-> Len(p1.code)])]

RECURSIVE declaration(_), statement(_), block(_), blockLoop(_)

\* The do-while loop of block.
blockLoop(p) ==
  LET p1 == ignoreNewlines(declaration(p)) IN
  IF peekType(p1) # "TOK_RBRACK" /\ peekType(p1) # "TOK_EOF"
  THEN blockLoop(p1)
  ELSE p1

block(p) ==
  LET p1 == blockLoop(ignoreNewlines(enterScope(p)))
  IN exitScope(consume(ignoreNewlines(p1), "TOK_RBRACK"))

statement(p) ==
  IF peekType(p) = "TOK_DEBUG"
  THEN Mark(p, "debug", Len(p.code), debugStmt(match(p, "TOK_DEBUG")))
  ELSE IF peekType(p) = "TOK_LBRACK"
  THEN Mark(p, "block", Len(p.code), block(match(p, "TOK_LBRACK")))
  ELSE Mark(p, "expression", Len(p.code), expression(p))

declaration(p) ==
  IF peekType(p) = "TOK_LET"
  THEN Mark(p, "let", Len(p.code), assignStmt(match(p, "TOK_LET")))
  ELSE statement(p)

\* The loop of obaCompile, left after the first line with an error.
compileStepStopsAtError(p) ==
  IF peekType(p) = "TOK_EOF" THEN [p |-> match(p, "TOK_EOF"), done |-> TRUE]
  ELSE LET p1 == declaration(p) IN
       IF peekType(p1) = "TOK_NEWLINE"
       THEN [p |-> matchLine(p1), done |-> p1.hasError]
       ELSE [p |-> consume(p1, "TOK_EOF"), done |-> TRUE]

\* One test of the condition of the while loop of obaCompile and, when it
\* holds, one pass through its body; done when the loop is left.
compileStep(p) ==
  IF peekType(p) = "TOK_EOF" THEN [p |-> match(p, "TOK_EOF"), done |-> TRUE]
  ELSE LET p1 == declaration(p) IN
       IF peekType(p1) = "TOK_NEWLINE"
       THEN [p |-> matchLine(p1), done |-> FALSE]
       ELSE [p |-> consume(p1, "TOK_EOF"), done |-> TRUE]

RECURSIVE compileLoop(_)
\* The while loop of obaCompile.
compileLoop(p) ==
  LET step == compileStep(p) IN
  IF step.done THEN step.p ELSE compileLoop(step.p)

obaCompile(toks) ==
  emitOp(compileLoop(ignoreNewlines(nextToken(initCompiler(toks)))), "OP_EXIT")

\* ------------------------------------------------------------------------
\* The lexer, on the characters of a source text.  The record l:
\*   src          the characters before the terminating NUL
\*   cur, start   Parser.currentChar and Parser.tokenStart, as indices
\*   type         Parser.current.type
\*   hasError     Parser.hasError
\*   overrun      a character after the terminating NUL has been read
\* ------------------------------------------------------------------------

NUL == "NUL"

\* The Parser as obaCompile sets it up.
initLexer(src) ==
  [src |-> src, cur |-> 1, start |-> 1, type |-> "TOK_ERROR",
   hasError |-> FALSE, overrun |-> FALSE]

\* *currentChar; the character at index Len(src) + 1 is the NUL.
peekChar(l) == IF l.cur <= Len(l.src) THEN l.src[l.cur] ELSE NUL

nextChar(l) == [l EXCEPT !.cur = l.cur + 1]

makeToken(l, type) == [l EXCEPT !.type = type]

isName(c) == c \in {"a", "b", "d", "e", "f", "g", "l", "r", "s", "t", "u", "_"}

isNumber(c) == c \in {"0", "1", "2"}

\* keywords[]: the type of a name.
Keyword(lexeme) ==
  CASE lexeme = <<"d", "e", "b", "u", "g">> -> "TOK_DEBUG"
    [] lexeme = <<"f", "a", "l", "s", "e">> -> "TOK_FALSE"
    [] lexeme = <<"l", "e", "t">> -> "TOK_LET"
    [] lexeme = <<"t", "r", "u", "e">> -> "TOK_TRUE"
    [] OTHER -> "TOK_IDENT"

RECURSIVE readString(_)
\* The loop of readString tests for the closing quote only: past the NUL
\* it reads characters that are not part of the source text.
readString(l) ==
  IF l.cur > Len(l.src) + 1 THEN [l EXCEPT !.overrun = TRUE]
  ELSE IF peekChar(l) # "\"" THEN readString(nextChar(l))
  ELSE makeToken(nextChar(l), "TOK_STRING")

RECURSIVE readName(_)
readName(l) ==
  IF isName(peekChar(l)) \/ isNumber(peekChar(l)) THEN readName(nextChar(l))
  ELSE makeToken(l, Keyword(SubSeq(l.src, l.start, l.cur - 1)))

RECURSIVE readNumber(_)
readNumber(l) ==
  IF isNumber(peekChar(l)) THEN readNumber(nextChar(l))
  ELSE makeToken(l, "TOK_NUMBER")

RECURSIVE skipLineComment(_)
skipLineComment(l) ==
  IF peekChar(l) # "\n" /\ peekChar(l) # NUL
  THEN skipLineComment(nextChar(l))
  ELSE l

\* IF_MATCH_NEXT, with matchChar.
IfMatchNext(l, next, matched, unmatched) ==
  IF peekChar(l) = next THEN makeToken(nextChar(l), matched)
  ELSE makeToken(l, unmatched)

RECURSIVE lexLoop(_)
\* The while loop of nextToken and the TOK_EOF that follows it.
lexLoop(l) ==
  IF peekChar(l) = NUL THEN makeToken([l EXCEPT !.start = l.cur], "TOK_EOF")
  ELSE LET c == peekChar(l)
           l1 == nextChar([l EXCEPT !.start = l.cur])
       IN CASE c \in {" ", "\r", "\t"} -> lexLoop(l1)
            [] c = "\n" -> makeToken(l1, "TOK_NEWLINE")
            [] c = "(" -> makeToken(l1, "TOK_LPAREN")
            [] c = ")" -> makeToken(l1, "TOK_RPAREN")
            [] c = "{" -> makeToken(l1, "TOK_LBRACK")
            [] c = "}" -> makeToken(l1, "TOK_RBRACK")
            [] c = "+" -> makeToken(l1, "TOK_PLUS")
            [] c = "-" -> makeToken(l1, "TOK_MINUS")
            [] c = "*" -> makeToken(l1, "TOK_MULTIPLY")
            [] c = "!" -> IfMatchNext(l1, "=", "TOK_NEQ", "TOK_NOT")
            [] c = ">" -> IfMatchNext(l1, "=", "TOK_GTE", "TOK_GT")
            [] c = "<" -> IfMatchNext(l1, "=", "TOK_LTE", "TOK_LT")
            [] c = "=" -> IfMatchNext(l1, "=", "TOK_EQ", "TOK_ASSIGN")
            [] c = "/" ->
                 IF peekChar(l1) = "/"
                 THEN lexLoop(skipLineComment(nextChar(l1)))
                 ELSE makeToken(l1, "TOK_DIVIDE")
            [] c = "\"" -> readString(l1)
            [] OTHER ->
                 IF isName(c) THEN readName(l1)
                 ELSE IF isNumber(c) THEN readNumber(l1)
                 ELSE [l1 EXCEPT !.type = "TOK_ERROR", !.hasError = TRUE]

\* nextToken, on characters.
lexToken(l) == IF l.type = "TOK_EOF" THEN l ELSE lexLoop(l)

\* ------------------------------------------------------------------------
\* The hash table of globals.  A Table is [count, capacity, entries];
\* entries maps the indices whose key is not NULL to [key, value].
\* ------------------------------------------------------------------------

GROW_CAPACITY(cap) == IF cap < 8 THEN 8 ELSE cap * 2

\* table->count <= table->capacity * TABLE_MAX_LOAD, with a load of 0.75.
UnderMaxLoad(count, capacity) == 4 * count <= 3 * capacity

\* key->hash % capacity, the hash being kept as two 16-bit halves.
HashIndex(hash, capacity) ==
  IF capacity <= 65536 THEN hash[2] % capacity
  ELSE (hash[1] % (capacity \div 65536)) * 65536 + hash[2]

NoEntries == [i \in {} |-> ZeroValue]

initTable == [count |-> 0, capacity |-> 0, entries |-> NoEntries]

RECURSIVE probe(_, _, _, _)
\* The loop of findEntry, from index on.
probe(entries, capacity, key, index) ==
  IF index \notin DOMAIN entries \/ entries[index].key.hash = key.hash
  THEN index
  ELSE probe(entries, capacity, key, (index + 1) % capacity)

findEntry(entries, capacity, key) ==
  probe(entries, capacity, key, HashIndex(key.hash, capacity))

PutEntry(entries, index, key, value) ==
  [i \in DOMAIN entries \cup {index} |->
     IF i = index THEN [key |-> key, value |-> value] ELSE entries[i]]

RECURSIVE rehash(_, _, _, _)
\* The second loop of adjustCapacity, from old index i on.
rehash(table, i, entries, capacity) ==
  IF i >= table.capacity THEN entries
  ELSE IF i \notin DOMAIN table.entries
  THEN rehash(table, i + 1, entries, capacity)
  ELSE LET entry == table.entries[i]
           dest == findEntry(entries, capacity, entry.key)
       IN rehash(table, i + 1,
                 PutEntry(entries, dest, entry.key, entry.value), capacity)

adjustCapacity(table, capacity) ==
  [table EXCEPT !.entries = rehash(table, 0, NoEntries, capacity),
                !.capacity = capacity]

\* tableGet: <<found, value>>.
tableGet(table, key) ==
  IF table.count = 0 THEN <<FALSE, ZeroValue>>
  ELSE LET index == findEntry(table.entries, table.capacity, key) IN
       IF index \notin DOMAIN table.entries THEN <<FALSE, ZeroValue>>
       ELSE <<TRUE, table.entries[index].value>>

\* tableSet: the table after the call.
tableSet(table, key, value) ==
  LET t1 == IF UnderMaxLoad(table.count, table.capacity)
            THEN adjustCapacity(table, GROW_CAPACITY(table.capacity))
            ELSE table
      index == findEntry(t1.entries, t1.capacity, key)
      isNewKey == index \notin DOMAIN t1.entries
  IN [t1 EXCEPT !.count = IF isNewKey THEN t1.count + 1 ELSE t1.count,
                !.entries = PutEntry(t1.entries, index, key, value)]

\* ------------------------------------------------------------------------
\* The VM
\* ------------------------------------------------------------------------

VARIABLES
  frames,    \* ObaVM.frames: index -> [function, ip, slots]
  frame,     \* ObaVM.frame, as an index into frames
  stack,     \* ObaVM.stack: index -> Value
  stackTop,  \* ObaVM.stackTop, as an index into stack
  globals,   \* ObaVM.globals
  heap,      \* the function objects allocated so far; an object is its index
  result,    \* what the last obaInterpret call returned ("NONE" while it runs)
  running,   \* control is inside run()
  out,       \* the values printed by OP_DEBUG, in order
  fault,     \* the first access outside an array or through NULL, or "none"
  runs,      \* the number of obaInterpret calls made
  used,      \* the number of statements compiled so far
  hasError,  \* Parser.hasError at the end of the last compilation
  spAt,      \* stackTop when the base frame's ip was at each code offset
  defined,   \* name -> the value OP_DEFINE_GLOBAL last bound to the name
  parsed,    \* the compiler's record after the last obaCompile on its own
  freed      \* what obaFreeVM has released: the VM, chunks, objects

vars == <<frames, frame, stack, stackTop, globals, heap, result, running, out,
          fault, runs, used, hasError, spAt, defined, parsed, freed>>

NoFrame == [function |-> NULL, ip |-> NULL, slots |-> NULL]

\* obaNewVM: memset to zero, an empty globals table, resetStack, resetFrames.
obaNewVM ==
  /\ frames = [i \in 0..(FRAMES_MAX - 1) |-> NoFrame]
  /\ frame = 0
  /\ stack = [i \in 0..(STACK_MAX - 1) |-> ZeroValue]
  /\ stackTop = 0
  /\ globals = initTable
  /\ heap = <<>>
  /\ result = "NONE"
  /\ running = FALSE
  /\ out = <<>>
  /\ fault = "none"
  /\ runs = 0
  /\ used = 0
  /\ hasError = FALSE
  /\ spAt = <<>>
  /\ defined = NoEntries
  /\ parsed = [kind |-> "none", p |-> obaCompile(<<>>)]
  /\ freed = [vm |-> FALSE, chunks |-> <<>>, objects |-> {}]

\* vm->frame, vm->frame->function and the bytes READ_BYTE reads next.
cur == frames[frame]
chunk == heap[cur.function]
Ready ==
  /\ running
  /\ frame \in 0..(FRAMES_MAX - 1)
  /\ cur.function # NULL
  /\ cur.ip < Len(chunk.code)
instruction == chunk.code[cur.ip + 1].op
operand == chunk.code[cur.ip + 2].b

\* frames after READ_BYTE has been evaluated n times.
Read(n) == [frames EXCEPT ![frame].ip = cur.ip + n]

Trace ==
  IF frame = 0 /\ cur.ip + 1 <= Len(spAt)
  THEN [spAt EXCEPT ![cur.ip + 1] = stackTop]
  ELSE spAt

\* The names defined so far and the value last given to each, after this
\* instruction.
Defined ==
  IF /\ instruction = "OP_DEFINE_GLOBAL"
     /\ operand < Len(chunk.constants)
     /\ stackTop - 1 >= 0
  THEN LET name == chunk.constants[operand + 1].s IN
       [n \in DOMAIN defined \cup {name} |->
          IF n = name THEN stack[stackTop - 1] ELSE defined[n]]
  ELSE defined

\* One step of run(): the fields it may write.
Become(frs, fr, st, top, glob, o, run, res, flt) ==
  /\ frames' = frs
  /\ frame' = fr
  /\ stack' = st
  /\ stackTop' = top
  /\ globals' = glob
  /\ out' = o
  /\ running' = run
  /\ result' = res
  /\ fault' = flt
  /\ spAt' = Trace
  /\ defined' = Defined
  /\ UNCHANGED <<heap, runs, used, hasError, parsed, freed>>

\* The loop goes on to the next instruction.
Continue(frs, st, top) ==
  Become(frs, frame, st, top, globals, out, TRUE, result, "none")

\* An access outside the array it indexes, or through a NULL pointer: the
\* behaviour of the program is undefined from here on, and the model stops.
Fault(name, frs) ==
  Become(frs, frame, stack, stackTop, globals, out, FALSE, result, name)

\* runtimeError without resetStack.
runtimeErrorKeepsStack(frs, fr) ==
  Become(frs, fr, stack, stackTop, globals, out, FALSE, "RUNTIME_ERROR",
         "none")

\* runtimeError (resetStack) followed by return OBA_RESULT_RUNTIME_ERROR.
runtimeError(frs, fr) ==
  Become(frs, fr, stack, 0, globals, out, FALSE, "RUNTIME_ERROR", "none")

\* push, on the stack st with top top.
push(frs, st, top, value) ==
  IF top \in 0..(STACK_MAX - 1)
  THEN Continue(frs, [st EXCEPT ![top] = value], top + 1)
  ELSE Fault("stack_overflow", frs)

\* peek(vm, lookahead), for a lookahead that stays inside the stack.
peek(lookahead) == stack[stackTop - lookahead]

\* Whether the n topmost slots exist.
Has(n) == stackTop - n >= 0 /\ stackTop <= STACK_MAX

BinaryOps ==
  {"OP_ADD", "OP_MINUS", "OP_MULTIPLY", "OP_DIVIDE",
   "OP_GT", "OP_LT", "OP_GTE", "OP_LTE"}

IsNaN(v) == v.n = 0 /\ v.d = 0

\* type(a op b) of BINARY_OP, on numbers.
Arith(op, a, b) ==
  CASE op = "OP_ADD" -> Fraction(a.n * b.d + b.n * a.d, a.d * b.d)
    [] op = "OP_MINUS" -> Fraction(a.n * b.d - b.n * a.d, a.d * b.d)
    [] op = "OP_MULTIPLY" -> Fraction(a.n * b.n, a.d * b.d)
    [] op = "OP_DIVIDE" -> Fraction(a.n * b.d, a.d * b.n)
    [] op = "OP_GT" ->
         OBA_BOOL(~IsNaN(a) /\ ~IsNaN(b) /\ a.n * b.d > b.n * a.d)
    [] op = "OP_LT" ->
         OBA_BOOL(~IsNaN(a) /\ ~IsNaN(b) /\ a.n * b.d < b.n * a.d)
    [] op = "OP_GTE" ->
         OBA_BOOL(~IsNaN(a) /\ ~IsNaN(b) /\ a.n * b.d >= b.n * a.d)
    [] op = "OP_LTE" ->
         OBA_BOOL(~IsNaN(a) /\ ~IsNaN(b) /\ a.n * b.d <= b.n * a.d)

\* concatenate: b is popped first, the characters of a come first.  The
\* buffer is allocated with a->length + b->length bytes and the terminating
\* NUL is written at chars[length], one byte past it: the string below is
\* what results when that write does no harm, and OpBinary has the other
\* outcome.
concatenate(a, b) == OBJ_STRING(a.s \o b.s)

OpConstant ==
  /\ Ready
  /\ instruction = "OP_CONSTANT"
  /\ IF operand >= Len(chunk.constants)
     THEN Fault("constant_out_of_bounds", Read(2))
     ELSE push(Read(2), stack, stackTop, chunk.constants[operand + 1])

\* BINARY_OP, for OP_ADD .. OP_DIVIDE and OP_GT .. OP_LTE.
OpBinary ==
  /\ Ready
  /\ instruction \in BinaryOps
  /\ IF ~Has(2) THEN Fault("stack_underflow", Read(1))
     ELSE IF IS_NUMBER(peek(1)) /\ IS_NUMBER(peek(2))
     THEN push(Read(1), stack, stackTop - 2,
               Arith(instruction, peek(2), peek(1)))
     ELSE IF IS_STRING(peek(1)) /\ IS_STRING(peek(2))
     THEN \/ push(Read(1), stack, stackTop - 2,
                  concatenate(peek(2), peek(1)))
          \/ Fault("heap_overflow", Read(1))
     ELSE runtimeError(Read(1), frame)

OpNot ==
  /\ Ready
  /\ instruction = "OP_NOT"
  /\ IF ~Has(1) THEN Fault("stack_underflow", Read(1))
     ELSE IF ~IS_BOOL(peek(1)) THEN runtimeError(Read(1), frame)
     ELSE push(Read(1), stack, stackTop - 1, OBA_BOOL(~AS_BOOL(peek(1))))

OpEq ==
  /\ Ready
  /\ instruction = "OP_EQ"
  /\ IF ~Has(2) THEN Fault("stack_underflow", Read(1))
     ELSE push(Read(1), stack, stackTop - 2,
               OBA_BOOL(valuesEqual(peek(2), peek(1))))

OpNeq ==
  /\ Ready
  /\ instruction = "OP_NEQ"
  /\ IF ~Has(2) THEN Fault("stack_underflow", Read(1))
     ELSE push(Read(1), stack, stackTop - 2,
               OBA_BOOL(~valuesEqual(peek(2), peek(1))))

OpTrue ==
  /\ Ready
  /\ instruction = "OP_TRUE"
  /\ push(Read(1), stack, stackTop, OBA_BOOL(TRUE))

OpFalse ==
  /\ Ready
  /\ instruction = "OP_FALSE"
  /\ push(Read(1), stack, stackTop, OBA_BOOL(FALSE))

\* READ_SHORT: the two bytes after the opcode, high byte first.
READ_SHORT == (operand * 256 + chunk.code[cur.ip + 3].b) % 65536

\* OP_JUMP: vm->frame->ip += READ_SHORT() reads ip and lets READ_SHORT
\* advance it without a sequence point between the two, so the offset is
\* added to ip either before or after the two operand bytes.
OpJump ==
  /\ Ready
  /\ instruction = "OP_JUMP"
  /\ \E base \in {1, 3} : Continue(Read(base + READ_SHORT), stack, stackTop)

\* OP_JUMP_IF_FALSE popping the condition it tests.
OpJumpIfFalsePops ==
  /\ Ready
  /\ instruction = "OP_JUMP_IF_FALSE"
  /\ IF ~Has(1) THEN Fault("stack_underflow", Read(1))
     ELSE IF ~IS_BOOL(peek(1)) THEN runtimeError(Read(1), frame)
     ELSE IF ~AS_BOOL(peek(1))
     THEN Continue(Read(3 + READ_SHORT), stack, stackTop - 1)
     ELSE Continue(Read(3), stack, stackTop - 1)

OpJumpIfFalse ==
  /\ Ready
  /\ instruction = "OP_JUMP_IF_FALSE"
  /\ IF ~Has(1) THEN Fault("stack_underflow", Read(1))
     ELSE IF ~IS_BOOL(peek(1)) THEN runtimeError(Read(1), frame)
     ELSE IF ~AS_BOOL(peek(1))
     THEN Continue(Read(3 + READ_SHORT), stack, stackTop)
     ELSE Continue(Read(3), stack, stackTop)

OpJumpIfTrue ==
  /\ Ready
  /\ instruction = "OP_JUMP_IF_TRUE"
  /\ IF ~Has(1) THEN Fault("stack_underflow", Read(1))
     ELSE IF ~IS_BOOL(peek(1)) THEN runtimeError(Read(1), frame)
     ELSE IF AS_BOOL(peek(1))
     THEN Continue(Read(3 + READ_SHORT), stack, stackTop)
     ELSE Continue(Read(3), stack, stackTop)

OpJumpIfNotMatch ==
  /\ Ready
  /\ instruction = "OP_JUMP_IF_NOT_MATCH"
  /\ IF ~Has(2) THEN Fault("stack_underflow", Read(3))
     ELSE IF ~valuesEqual(peek(1), peek(2))
     THEN Continue(Read(3 + READ_SHORT), stack, stackTop - 1)
     ELSE Continue(Read(3), stack, stackTop - 1)

OpLoop ==
  /\ Ready
  /\ instruction = "OP_LOOP"
  /\ Continue([frames EXCEPT ![frame].ip = READ_SHORT], stack, stackTop)

OpDefineGlobal ==
  /\ Ready
  /\ instruction = "OP_DEFINE_GLOBAL"
  /\ IF operand >= Len(chunk.constants)
     THEN Fault("constant_out_of_bounds", Read(2))
     ELSE IF ~Has(1) THEN Fault("stack_underflow", Read(2))
     ELSE Become(Read(2), frame, stack, stackTop - 1,
                 tableSet(globals, chunk.constants[operand + 1], peek(1)),
                 out, TRUE, result, "none")

OpGetGlobal ==
  /\ Ready
  /\ instruction = "OP_GET_GLOBAL"
  /\ IF operand >= Len(chunk.constants)
     THEN Fault("constant_out_of_bounds", Read(2))
     ELSE LET got == tableGet(globals, chunk.constants[operand + 1]) IN
          IF ~got[1] THEN runtimeError(Read(2), frame)
          ELSE push(Read(2), stack, stackTop, got[2])

OpSetLocal ==
  /\ Ready
  /\ instruction = "OP_SET_LOCAL"
  /\ IF ~Has(1) THEN Fault("stack_underflow", Read(2))
     ELSE IF cur.slots + operand \notin 0..(STACK_MAX - 1)
     THEN Fault("slot_out_of_bounds", Read(2))
     ELSE Continue(Read(2), [stack EXCEPT ![cur.slots + operand] = peek(1)],
                   stackTop)

OpGetLocal ==
  /\ Ready
  /\ instruction = "OP_GET_LOCAL"
  /\ IF cur.slots + operand \notin 0..(STACK_MAX - 1)
     THEN Fault("slot_out_of_bounds", Read(2))
     ELSE push(Read(2), stack, stackTop, stack[cur.slots + operand])

OpSwapStackTop ==
  /\ Ready
  /\ instruction = "OP_SWAP_STACK_TOP"
  /\ IF ~Has(2) THEN Fault("stack_underflow", Read(1))
     ELSE Continue(Read(1),
                   [stack EXCEPT ![stackTop - 2] = peek(1),
                                 ![stackTop - 1] = peek(2)],
                   stackTop)

\* call: the frame pointer moves first; the new frame is written unless
\* the pointer is more than FRAMES_MAX frames above frames[0].
call(frs, function, arity) ==
  IF frame + 1 > FRAMES_MAX
  THEN runtimeError(frs, frame + 1)
  ELSE IF frame + 1 \notin 0..(FRAMES_MAX - 1)
  THEN Become(frs, frame + 1, stack, stackTop, globals, out, FALSE, result,
              "frame_overflow")
  ELSE Become([frs EXCEPT ![frame + 1] =
                 [function |-> function, ip |-> 0,
                  slots |-> stackTop - arity - 1]],
              frame + 1, stack, stackTop, globals, out, TRUE, result, "none")

callValue(frs, value, arity) ==
  IF IS_FUNCTION(value) THEN call(frs, value.n, arity)
  ELSE runtimeError(frs, frame)

OpCall ==
  /\ Ready
  /\ instruction = "OP_CALL"
  /\ IF ~Has(operand + 1) THEN Fault("stack_underflow", Read(2))
     ELSE callValue(Read(2), peek(operand + 1), operand)

\* return_: pop the value, stackTop = frame->slots, push the value, clear
\* the frame and move the frame pointer down.
return_(frs) ==
  IF ~Has(1) THEN Fault("stack_underflow", frs)
  ELSE IF cur.slots \notin 0..(STACK_MAX - 1) THEN Fault("stack_overflow", frs)
  ELSE Become([frs EXCEPT ![frame] = NoFrame], frame - 1,
              [stack EXCEPT ![cur.slots] = peek(1)], cur.slots + 1,
              globals, out, TRUE, result, "none")

OpReturn ==
  /\ Ready
  /\ instruction = "OP_RETURN"
  /\ return_(Read(1))

OpPop ==
  /\ Ready
  /\ instruction = "OP_POP"
  /\ IF ~Has(1) THEN Fault("stack_underflow", Read(1))
     ELSE Continue(Read(1), stack, stackTop - 1)

OpDebug ==
  /\ Ready
  /\ instruction = "OP_DEBUG"
  /\ IF ~Has(1) THEN Fault("stack_underflow", Read(1))
     ELSE Become(Read(1), frame, stack, stackTop - 1, globals,
                 Append(out, peek(1)), TRUE, result, "none")

OpExit ==
  /\ Ready
  /\ instruction = "OP_EXIT"
  /\ Become(Read(1), frame, stack, stackTop, globals, out, FALSE, "SUCCESS",
            "none")

\* The opcodes the switch of run() has a case for.
Handled ==
  BinaryOps \cup
  {"OP_CONSTANT", "OP_NOT", "OP_EQ", "OP_NEQ", "OP_TRUE", "OP_FALSE",
   "OP_JUMP", "OP_JUMP_IF_FALSE", "OP_JUMP_IF_TRUE", "OP_JUMP_IF_NOT_MATCH",
   "OP_LOOP", "OP_DEFINE_GLOBAL", "OP_GET_GLOBAL", "OP_SET_LOCAL",
   "OP_GET_LOCAL", "OP_SWAP_STACK_TOP", "OP_CALL", "OP_RETURN", "OP_POP",
   "OP_DEBUG", "OP_EXIT"}

\* An opcode without a case: the switch does nothing and the loop goes on.
OpDefault ==
  /\ Ready
  /\ instruction \notin Handled
  /\ instruction # "BYTE"
  /\ Continue(Read(1), stack, stackTop)

\* READ_BYTE through a frame pointer outside frames, through the NULL ip of
\* a cleared frame, or past the last byte of the chunk.
FetchFault ==
  /\ running
  /\ ~Ready
  /\ fault' = (IF frame \notin 0..(FRAMES_MAX - 1) THEN "frame_out_of_bounds"
               ELSE IF cur.function = NULL THEN "null_ip"
               ELSE "code_overrun")
  /\ running' = FALSE
  /\ UNCHANGED <<frames, frame, stack, stackTop, globals, heap, result, out,
                 runs, used, hasError, spAt, defined, parsed, freed>>

\* ------------------------------------------------------------------------
\* obaInterpret
\* ------------------------------------------------------------------------

\* What obaCompile hands to obaInterpret: NULL when the compiler recorded an
\* error, else the new top-level function, the last of the objects compiled.
CompiledFunction(compiled) ==
  IF compiled.hasError THEN NULL ELSE Len(heap) + Len(compiled.objs)

\* interpret: the frame it starts is vm->frame.
interpret(frs, objs) ==
  IF frs[frame].function = NULL
  THEN /\ fault' = "null_function"
       /\ UNCHANGED <<running, result>>
       /\ frames' = frs
  ELSE IF Len(objs[frs[frame].function].code) = 0
  THEN /\ result' = "SUCCESS"
       /\ UNCHANGED <<running, fault>>
       /\ frames' = frs
  ELSE /\ frames' = [frs EXCEPT ![frame].ip = 0]
       /\ running' = TRUE
       /\ result' = "NONE"
       /\ UNCHANGED fault

\* obaInterpret without the test for a NULL function: what the compiler
\* emitted is run whether or not it recorded an error.
obaInterpretUnchecked(compiled) ==
  /\ ~running
  /\ fault = "none"
  /\ ~freed.vm
  /\ runs' = runs + 1
  /\ hasError' = compiled.hasError
  /\ heap' = heap \o compiled.objs
  /\ spAt' = [i \in 1..Len(compiled.objs[Len(compiled.objs)].code) |-> -1]
  /\ interpret([frames EXCEPT ![0] =
                  [function |-> Len(heap) + Len(compiled.objs), ip |-> 0,
                   slots |-> stackTop]],
               heap \o compiled.objs)
  /\ UNCHANGED <<frame, stack, stackTop, globals, out, defined, parsed,
                 freed>>

\* obaInterpret, on what the compiler made of the source: compiled.hasError
\* and compiled.objs, the function objects it allocated.
obaInterpret(compiled) ==
  /\ ~running
  /\ fault = "none"
  /\ ~freed.vm
  /\ runs' = runs + 1
  /\ hasError' = compiled.hasError
  /\ LET function == CompiledFunction(compiled) IN
     IF function = NULL
     THEN /\ result' = "COMPILE_ERROR"
          /\ UNCHANGED <<frames, heap, running, fault, spAt>>
     ELSE /\ heap' = heap \o compiled.objs
          /\ spAt' = [i \in 1..Len(compiled.objs[Len(compiled.objs)].code)
                        |-> -1]
          /\ interpret([frames EXCEPT ![0] =
                          [function |-> function, ip |-> 0,
                           slots |-> stackTop]],
                       heap \o compiled.objs)
  /\ UNCHANGED <<frame, stack, stackTop, globals, out, defined, parsed,
                 freed>>

\* ------------------------------------------------------------------------
\* obaFreeVM
\* ------------------------------------------------------------------------

\* obaFreeVM, called between two runs: freeChunk on the chunk of the
\* function of the current frame, freeTable on the globals, stackTop
\* cleared, and the VM itself released.  No function object is released.
ObaFreeVM ==
  /\ ~running
  /\ fault = "none"
  /\ ~freed.vm
  /\ IF frame \notin 0..(FRAMES_MAX - 1)
     THEN /\ fault' = "frame_out_of_bounds"
          /\ UNCHANGED <<freed, globals, stackTop>>
     ELSE IF cur.function = NULL
     THEN /\ fault' = "free_null_function"
          /\ UNCHANGED <<freed, globals, stackTop>>
     ELSE /\ freed' = [vm |-> TRUE,
                       chunks |-> Append(freed.chunks, cur.function),
                       objects |-> freed.objects]
          /\ globals' = initTable
          /\ stackTop' = NULL
          /\ UNCHANGED fault
  /\ UNCHANGED <<frames, frame, stack, heap, result, running, out, runs, used,
                 hasError, spAt, defined, parsed>>

\* ------------------------------------------------------------------------
\* Source texts: statements, one per line
\* ------------------------------------------------------------------------

NameA == <<"a">>

Statements ==
  { <<Tok("TOK_TRUE")>>,
    <<Tok("TOK_DEBUG"), TokNumber(1), Tok("TOK_PLUS"), TokNumber(2)>>,
    <<Tok("TOK_LET"), TokIdent(NameA), Tok("TOK_ASSIGN"), TokNumber(1)>>,
    <<Tok("TOK_DEBUG"), TokIdent(NameA), Tok("TOK_DIVIDE"), TokNumber(2)>>,
    <<Tok("TOK_LBRACK"), Tok("TOK_LET"), TokIdent(NameA), Tok("TOK_ASSIGN"),
      Tok("TOK_FALSE"), Tok("TOK_RBRACK")>>,
    <<Tok("TOK_DEBUG"), Tok("TOK_NOT"), Tok("TOK_TRUE"), Tok("TOK_EQ"),
      Tok("TOK_FALSE")>>,
    <<TokIdent(NameA), Tok("TOK_ASSIGN"), TokString(<<"x">>)>>,
    <<Tok("TOK_LPAREN"), TokNumber(1), Tok("TOK_NEQ"), TokNumber(2),
      Tok("TOK_RPAREN")>>,
    <<Tok("TOK_DEBUG"), TokString(<<"x">>), Tok("TOK_PLUS"), Tok("TOK_TRUE")>>,
    <<Tok("TOK_DEBUG"), TokNumber(1), Tok("TOK_PLUS")>>,
    <<Tok("TOK_DEBUG"), TokString(<<"x">>), Tok("TOK_PLUS"),
      TokString(<<"y">>)>>,
    <<Tok("TOK_DEBUG"), TokString(<<"x">>), Tok("TOK_LT"),
      TokString(<<"y">>)>>,
    <<Tok("TOK_ERROR")>> }

RECURSIVE Lines(_)
\* The statements of a source text, each followed by a newline.
Lines(stmts) ==
  IF stmts = <<>> THEN <<>>
  ELSE Head(stmts) \o <<Tok("TOK_NEWLINE")>> \o Lines(Tail(stmts))

\* The result of compiling a token stream, as obaInterpret receives it.
Compiled(toks) ==
  LET p == obaCompile(toks) IN
  [hasError |-> p.hasError,
   objs |-> <<[arity |-> 0, code |-> p.code, constants |-> p.constants,
               marks |-> p.marks]>>]

\* obaInterpret on a source text of k statements.
InterpretSource ==
  /\ used < MaxStmts
  /\ \E k \in 1..(MaxStmts - used) :
       \E stmts \in [1..k -> Statements] :
         /\ obaInterpret(Compiled(Lines(stmts)))
         /\ used' = used + k

\* Names of globals; the first two have the same FNV-1a hash, 3831552182.
Zinke == <<"z", "i", "n", "k", "e">>
Altarage == <<"a", "l", "t", "a", "r", "a", "g", "e">>
GlobalNames == {Zinke, Altarage, <<"x">>}

\* let NAME = 1, let NAME = 2 and debug NAME, for each of the names.
GlobalStatements ==
  { <<Tok("TOK_LET"), TokIdent(name), Tok("TOK_ASSIGN"), TokNumber(n)>> :
      name \in GlobalNames, n \in {1, 2} }
  \cup { <<Tok("TOK_DEBUG"), TokIdent(name)>> : name \in GlobalNames }

\* obaInterpret on a source text of one statement on a global.
InterpretGlobals ==
  /\ runs < MaxGlobalRuns
  /\ \E stmt \in GlobalStatements : obaInterpret(Compiled(Lines(<<stmt>>)))
  /\ UNCHANGED used

\* ------------------------------------------------------------------------
\* Assembled programs: the top-level function and the two functions f and
\* g its constant pool refers to, as a compiler with function declarations
\* hands them to obaInterpret.
\* ------------------------------------------------------------------------

I(name) == <<Op(name)>>
I1(name, n) == <<Op(name), Byte(n)>>
I2(name, hi, lo) == <<Op(name), Byte(hi), Byte(lo)>>

\* The constant pool every assembled function has, and the index of each
\* of its constants.
Index(which) ==
  CASE which = "number" -> 0
    [] which = "f" -> 1
    [] which = "g" -> 2
    [] which = "name" -> 3
    [] which = "closure" -> 4

Pool(base) ==
  <<OBA_NUMBER(1), OBJ_FUNCTION(base + 1), OBJ_FUNCTION(base + 2),
    OBJ_STRING(NameA), newClosure(base + 1)>>

RECURSIVE Repeat(_, _)
Repeat(code, n) == IF n = 0 THEN <<>> ELSE code \o Repeat(code, n - 1)

ReturnTrue == I("OP_TRUE") \o I("OP_RETURN")
CallF(argc) ==
  I1("OP_CONSTANT", Index("f"))
    \o Repeat(I1("OP_CONSTANT", Index("number")), argc)
    \o I1("OP_CALL", argc)

\* The call f(a) of the closure of f, whose value is printed.
VectorScript ==
  I1("OP_CONSTANT", Index("closure")) \o I1("OP_CONSTANT", Index("name"))
    \o I1("OP_CALL", 1) \o I("OP_DEBUG") \o I("OP_EXIT")

\* fn f coord { match coord | "a" = 1 | 1 = true ; }
VectorMatch ==
  I1("OP_GET_LOCAL", 1)
    \o I1("OP_CONSTANT", Index("name")) \o I2("OP_JUMP_IF_NOT_MATCH", 0, 4)
    \o I("OP_POP") \o I1("OP_CONSTANT", Index("number")) \o I("OP_RETURN")
    \o I1("OP_CONSTANT", Index("number")) \o I2("OP_JUMP_IF_NOT_MATCH", 0, 3)
    \o I("OP_POP") \o I("OP_TRUE") \o I("OP_RETURN")
    \o I("OP_RETURN")

\* [script, f, farity, g, garity]
Prog(script, f, farity, g, garity) ==
  [script |-> script, f |-> f, farity |-> farity, g |-> g, garity |-> garity]

Programs ==
  { \* a call and a return
    Prog(CallF(0) \o I("OP_EXIT"), ReturnTrue, 0, ReturnTrue, 0),
    \* a call with an argument, which the function returns
    Prog(CallF(1) \o I("OP_DEBUG") \o I("OP_EXIT"),
         I1("OP_GET_LOCAL", 1) \o I("OP_RETURN"), 1, ReturnTrue, 0),
    \* two arguments
    Prog(CallF(2) \o I("OP_EXIT"),
         I1("OP_GET_LOCAL", 2) \o I("OP_RETURN"), 2, ReturnTrue, 0),
    \* a call above a value of the caller; f overwrites its slot 0
    Prog(I("OP_TRUE") \o I1("OP_CONSTANT", Index("f")) \o I("OP_FALSE")
           \o I1("OP_CALL", 1) \o I("OP_POP") \o I("OP_EXIT"),
         I1("OP_GET_LOCAL", 0) \o I("OP_SWAP_STACK_TOP")
           \o I1("OP_SET_LOCAL", 0) \o I("OP_RETURN"), 1, ReturnTrue, 0),
    \* jumps
    Prog(I("OP_TRUE") \o I2("OP_JUMP_IF_TRUE", 0, 1) \o I("OP_POP")
           \o I("OP_FALSE") \o I2("OP_JUMP_IF_FALSE", 0, 1) \o I("OP_POP")
           \o I2("OP_JUMP_IF_NOT_MATCH", 0, 1) \o I("OP_POP")
           \o I2("OP_JUMP", 0, 2) \o I("OP_TRUE") \o I("OP_POP")
           \o I2("OP_LOOP", 0, 22) \o I("OP_EXIT"),
         ReturnTrue, 0, ReturnTrue, 0),
    \* conditional jumps that are not taken, and one on a number
    Prog(I("OP_FALSE") \o I2("OP_JUMP_IF_TRUE", 0, 1) \o I("OP_POP")
           \o I("OP_TRUE") \o I2("OP_JUMP_IF_FALSE", 0, 1) \o I("OP_POP")
           \o I1("OP_CONSTANT", Index("number"))
           \o I2("OP_JUMP_IF_FALSE", 0, 1) \o I("OP_POP") \o I("OP_EXIT"),
         ReturnTrue, 0, ReturnTrue, 0),
    \* a conditional jump on a string
    Prog(I1("OP_CONSTANT", Index("name")) \o I2("OP_JUMP_IF_TRUE", 0, 1)
           \o I("OP_POP") \o I("OP_EXIT"),
         ReturnTrue, 0, ReturnTrue, 0),
    \* a conditional jump whose offset has a high byte
    Prog(I("OP_TRUE") \o I2("OP_JUMP_IF_TRUE", 1, 0) \o I("OP_EXIT"),
         ReturnTrue, 0, ReturnTrue, 0),
    \* more arguments than the function's arity
    Prog(CallF(1) \o I("OP_EXIT"), ReturnTrue, 0, ReturnTrue, 0),
    \* f calls g
    Prog(CallF(0) \o I("OP_EXIT"),
         I1("OP_CONSTANT", Index("g")) \o I1("OP_CALL", 0) \o I("OP_RETURN"), 0,
         ReturnTrue, 0),
    \* f calls g, g fails
    Prog(CallF(0) \o I("OP_EXIT"),
         I1("OP_CONSTANT", Index("g")) \o I1("OP_CALL", 0) \o I("OP_RETURN"), 0,
         I1("OP_CONSTANT", Index("number")) \o I("OP_NOT") \o I("OP_RETURN"), 0),
    \* f fails
    Prog(CallF(0) \o I("OP_EXIT"),
         I1("OP_CONSTANT", Index("number")) \o I("OP_NOT") \o I("OP_RETURN"), 0,
         ReturnTrue, 0),
    \* f fails on its own slot 0 when that holds the function
    Prog(CallF(0) \o I("OP_EXIT"),
         I("OP_TRUE") \o I1("OP_GET_LOCAL", 0) \o I("OP_NOT")
           \o I("OP_RETURN"), 0, ReturnTrue, 0),
    \* f calls itself
    Prog(CallF(0) \o I("OP_EXIT"), CallF(0) \o I("OP_RETURN"), 0,
         ReturnTrue, 0),
    \* a return at top level
    Prog(I("OP_TRUE") \o I("OP_RETURN"), ReturnTrue, 0, ReturnTrue, 0),
    \* more pushes than the stack has slots
    Prog(Repeat(I("OP_TRUE"), STACK_MAX + 1) \o I("OP_EXIT"),
         ReturnTrue, 0, ReturnTrue, 0),
    \* a call of a number
    Prog(I1("OP_CONSTANT", Index("number")) \o I1("OP_CALL", 0) \o I("OP_EXIT"),
         ReturnTrue, 0, ReturnTrue, 0),
    \* globals and arithmetic
    Prog(I1("OP_CONSTANT", Index("number"))
           \o I1("OP_DEFINE_GLOBAL", Index("name"))
           \o I1("OP_GET_GLOBAL", Index("name"))
           \o I1("OP_CONSTANT", Index("number"))
           \o I("OP_ADD") \o I("OP_DEBUG") \o I("OP_EXIT"),
         ReturnTrue, 0, ReturnTrue, 0),
    \* comparisons and an opcode the switch has no case for
    Prog(I("OP_TRUE") \o I("OP_FALSE") \o I("OP_EQ") \o I("OP_NOT")
           \o I("OP_TRUE") \o I("OP_NEQ") \o I("OP_ASSIGN") \o I("OP_EXIT"),
         ReturnTrue, 0, ReturnTrue, 0),
    \* a pop from the empty stack
    Prog(I("OP_POP") \o I("OP_EXIT"), ReturnTrue, 0, ReturnTrue, 0),
    \* an undefined global at top level
    Prog(I1("OP_GET_GLOBAL", Index("name")) \o I("OP_EXIT"),
         ReturnTrue, 0, ReturnTrue, 0),
    \* the closure of f called with an argument, which f returns
    Prog(I1("OP_CONSTANT", Index("closure"))
           \o I1("OP_CONSTANT", Index("number")) \o I1("OP_CALL", 1)
           \o I("OP_DEBUG") \o I("OP_EXIT"),
         I1("OP_GET_LOCAL", 1) \o I("OP_RETURN"), 1, ReturnTrue, 0),
    \* the closure of a function that matches on its argument
    Prog(VectorScript, VectorMatch, 1, ReturnTrue, 0),
    \* the same function called as a function, with the other argument
    Prog(I1("OP_CONSTANT", Index("f")) \o I1("OP_CONSTANT", Index("number"))
           \o I1("OP_CALL", 1) \o I("OP_DEBUG") \o I("OP_EXIT"),
         VectorMatch, 1, ReturnTrue, 0),
    \* f ends the run
    Prog(CallF(0) \o I("OP_EXIT"), I("OP_TRUE") \o I("OP_EXIT"), 0,
         ReturnTrue, 0) }

\* The objects of a program allocated after base objects: f, g, top level.
Assembled(prog, base) ==
  [hasError |-> FALSE,
   objs |-> <<[arity |-> prog.farity, code |-> prog.f,
               constants |-> Pool(base), marks |-> <<>>],
              [arity |-> prog.garity, code |-> prog.g,
               constants |-> Pool(base), marks |-> <<>>],
              [arity |-> 0, code |-> prog.script,
               constants |-> Pool(base), marks |-> <<>>]>>]

InterpretAssembled ==
  /\ runs < MaxRuns
  /\ \E prog \in Programs : obaInterpret(Assembled(prog, Len(heap)))
  /\ UNCHANGED used

\* ------------------------------------------------------------------------
\* obaCompile on its own: the source texts given to it
\* ------------------------------------------------------------------------

\* The fields of the VM, which a compilation alone leaves as they are.
vmVars == <<frames, frame, stack, stackTop, globals, heap, result, running,
            out, fault, runs, used, hasError, spAt, defined, freed>>

\* obaCompile(toks), toks being a source text of the given kind.
Compile(kind, toks) ==
  /\ parsed' = [kind |-> kind, p |-> obaCompile(toks)]
  /\ UNCHANGED vmVars

\* obaCompile has not been called yet.
Idle == ~running /\ parsed.kind = "none"

\* The tokens of the infix operators of the rules table.
Operators ==
  {"TOK_PLUS", "TOK_MINUS", "TOK_MULTIPLY", "TOK_DIVIDE", "TOK_GT", "TOK_LT",
   "TOK_GTE", "TOK_LTE", "TOK_EQ", "TOK_NEQ", "TOK_ASSIGN"}

RECURSIVE Chain(_)
\* The expression 1 ops[1] 2 ops[2] 3 ...
Chain(ops) ==
  IF ops = <<>> THEN <<TokNumber(1)>>
  ELSE Chain(SubSeq(ops, 1, Len(ops) - 1))
         \o <<Tok(ops[Len(ops)]), TokNumber(Len(ops) + 1)>>

CompileChain ==
  /\ Idle
  /\ \E n \in 1..MaxOps : \E ops \in [1..n -> Operators] :
       Compile("chain", Chain(ops))

\* { let a = 1 / debug a } and the same around an inner block that
\* declares a again.
LetA(n) ==
  <<Tok("TOK_LET"), TokIdent(NameA), Tok("TOK_ASSIGN"), TokNumber(n),
    Tok("TOK_NEWLINE")>>
DebugA == <<Tok("TOK_DEBUG"), TokIdent(NameA), Tok("TOK_NEWLINE")>>
Blocks ==
  { <<Tok("TOK_LBRACK")>> \o LetA(1) \o DebugA \o <<Tok("TOK_RBRACK")>>,
    <<Tok("TOK_LBRACK")>> \o LetA(1)
      \o <<Tok("TOK_LBRACK")>> \o LetA(2) \o DebugA
      \o <<Tok("TOK_RBRACK"), Tok("TOK_NEWLINE")>>
      \o DebugA \o <<Tok("TOK_RBRACK")>> }

CompileBlock ==
  /\ Idle
  /\ \E toks \in Blocks : Compile("block", toks)

\* n lines, each the number literal 1: n constants.
Literals(n) ==
  [i \in 1..(2 * n) |->
     IF i % 2 = 1 THEN TokNumber(1) ELSE Tok("TOK_NEWLINE")]

\* obaCompile on a source text of 256 or 257 literals, up to its while
\* loop.
BeginLiterals ==
  /\ Idle
  /\ \E n \in {256, 257} :
       parsed' = [kind |-> "compiling",
                  p |-> ignoreNewlines(nextToken(initCompiler(Literals(n))))]
  /\ UNCHANGED vmVars

\* One pass through the while loop of that compilation, with the OP_EXIT
\* that follows the loop once it is left.
CompileStatement ==
  /\ parsed.kind = "compiling"
  /\ LET step == compileStep(parsed.p) IN
     parsed' = IF step.done
               THEN [kind |-> "literals", p |-> emitOp(step.p, "OP_EXIT")]
               ELSE [kind |-> "compiling", p |-> step.p]
  /\ UNCHANGED vmVars

\* Lines with and without errors: an invalid character, an operator
\* without right operand, a token after the end of an expression, a
\* parenthesis left open, and two valid statements.
ErrorLines ==
  { <<Tok("TOK_ERROR")>>,
    <<Tok("TOK_DEBUG"), TokNumber(1), Tok("TOK_PLUS")>>,
    <<TokNumber(1), Tok("TOK_RPAREN")>>,
    <<Tok("TOK_LPAREN"), TokNumber(1)>>,
    <<Tok("TOK_TRUE")>>,
    <<Tok("TOK_DEBUG"), TokNumber(2)>> }

CompileLines ==
  /\ Idle
  /\ \E n \in 1..MaxLines : \E lines \in [1..n -> ErrorLines] :
       Compile("lines", Lines(lines))

\* ------------------------------------------------------------------------
\* The lexer on its own: the characters given to it
\* ------------------------------------------------------------------------

\* The characters source texts are made of: a quote, a slash, a name, a
\* digit, a blank, a newline and an equals sign.
Chars == {"\"", "/", "a", "1", " ", "\n", "="}

\* The source texts of up to MaxChars characters.
Sources == UNION {[1..n -> Chars] : n \in 0..MaxChars}

\* obaCompile on a source text, up to its first nextToken.
BeginLex ==
  /\ Idle
  /\ \E src \in Sources : parsed' = [kind |-> "lexing", p |-> initLexer(src)]
  /\ UNCHANGED vmVars

\* One call of nextToken by the parser, which calls it until it has read
\* TOK_EOF.
LexToken ==
  /\ parsed.kind = "lexing"
  /\ ~parsed.p.overrun
  /\ parsed.p.type # "TOK_EOF"
  /\ parsed' = [kind |-> "lexing", p |-> lexToken(parsed.p)]
  /\ UNCHANGED vmVars

\* ------------------------------------------------------------------------
\* Specifications
\* ------------------------------------------------------------------------

Init == obaNewVM

\* The VM on assembled programs.
Next ==
  \/ InterpretAssembled
  \/ OpConstant \/ OpBinary \/ OpNot \/ OpEq \/ OpNeq \/ OpTrue \/ OpFalse
  \/ OpJump \/ OpJumpIfFalse \/ OpJumpIfTrue \/ OpJumpIfNotMatch \/ OpLoop
  \/ OpDefineGlobal \/ OpGetGlobal \/ OpSetLocal \/ OpGetLocal
  \/ OpSwapStackTop \/ OpCall \/ OpReturn \/ OpPop \/ OpDebug \/ OpExit
  \/ OpDefault \/ FetchFault
  \/ ObaFreeVM

Spec == Init /\ [][Next]_vars

\* The VM on the chunks the compiler makes of source texts.
NextSource ==
  \/ InterpretSource
  \/ OpConstant \/ OpBinary \/ OpNot \/ OpEq \/ OpNeq \/ OpTrue \/ OpFalse
  \/ OpDefineGlobal \/ OpGetGlobal \/ OpDebug \/ OpExit \/ OpDefault
  \/ ObaFreeVM

SpecSource == Init /\ [][NextSource]_vars

\* One pass through the for (;;) loop of run(), on a compiled chunk.
RunStep ==
  \/ OpConstant \/ OpBinary \/ OpNot \/ OpEq \/ OpNeq \/ OpTrue \/ OpFalse
  \/ OpDefineGlobal \/ OpGetGlobal \/ OpDebug \/ OpExit \/ OpDefault

\* The same, run() never pausing between two instructions.
SpecSourceFair == SpecSource /\ WF_vars(RunStep)

\* The VM on source texts that define and read globals.
NextGlobals ==
  \/ InterpretGlobals
  \/ OpConstant \/ OpDefineGlobal \/ OpGetGlobal \/ OpDebug \/ OpExit

SpecGlobals == Init /\ [][NextGlobals]_vars

\* obaCompile alone, on expressions, blocks, many constants and errors.
NextCompile ==
  \/ CompileChain \/ CompileBlock \/ CompileLines
  \/ BeginLiterals \/ CompileStatement

SpecCompile == Init /\ [][NextCompile]_vars

\* The lexer alone, on every short source text.
NextLex == BeginLex \/ LexToken

SpecLex == Init /\ [][NextLex]_vars

\* ------------------------------------------------------------------------
\* Properties
\* ------------------------------------------------------------------------

\* C1: after an interpret call has ended with RUNTIME_ERROR, at whatever
\* call depth the error was raised, the value stack is empty and the
\* current frame is frames[0]; the interpret call that follows starts the
\* new top-level function in frames[0] at its first instruction.
C1_ResetAfterRuntimeError ==
  /\ (result = "RUNTIME_ERROR" => stackTop = 0 /\ frame = 0)
  /\ ((running /\ spAt # <<>> /\ (\A i \in DOMAIN spAt : spAt[i] = -1)) =>
        frame = 0 /\ cur.ip = 0 /\ cur.function = Len(heap))

C3_NoUnderflow ==
  ~hasError => stackTop >= 0 /\ fault # "stack_underflow"

\* C3's case: a compiled debug statement has popped its operands and its
\* value, down to the stack base.
C3_Witness ==
  /\ ~hasError
  /\ result = "SUCCESS"
  /\ out # <<>>
  /\ stackTop = 0

\* The depth of the stack before the statement m of the running chunk, and
\* after it, once both ends of its code have been executed.
Executed(m) == spAt[m.from + 1] # -1 /\ spAt[m.to + 1] # -1
Growth(m) == spAt[m.to + 1] - spAt[m.from + 1]

\* C4: after a compiled statement has executed, the stack depth is what it
\* was before the statement, except that a let at block scope adds one slot;
\* a bare expression statement in particular leaves nothing.
C4_StackBalance ==
  (~hasError /\ heap # <<>> /\ fault = "none") =>
    \A i \in DOMAIN heap[Len(heap)].marks :
      LET m == heap[Len(heap)].marks[i] IN
      Executed(m) =>
        Growth(m) = (IF m.kind = "let" /\ m.scope > 0 THEN 1 ELSE 0)

\* C5: the current frame never lies above frames[FRAMES_MAX - 1], and no
\* CALL writes a frame outside the frames array.
C5_FrameDepthBounded ==
  frame <= FRAMES_MAX - 1 /\ fault # "frame_overflow"

\* C6: stackTop is never more than STACK_MAX slots above the base, and no
\* push writes past the end of the stack array.
C6_StackDepthBounded ==
  stackTop <= STACK_MAX /\ fault # "stack_overflow"

\* OP_CALL is the next instruction and its callee is a function.
CallStep ==
  /\ Ready
  /\ instruction = "OP_CALL"
  /\ Has(operand + 1)
  /\ IS_FUNCTION(peek(operand + 1))

\* C7: CALL argc on a function pushes exactly one frame, at the first
\* instruction of the function and with its slots at stackTop - argc - 1,
\* so that slot 0 is the function and slots 1..argc the arguments; the
\* value stack is unchanged.
C7_CallPushesFrame ==
  [][CallStep =>
       /\ fault' = "none"
       /\ frame' = frame + 1
       /\ frames'[frame'] = [function |-> peek(operand + 1).n, ip |-> 0,
                             slots |-> stackTop - operand - 1]
       /\ stack[frames'[frame'].slots] = peek(operand + 1)
       /\ \A i \in 1..operand :
            stack[frames'[frame'].slots + i] = peek(operand + 1 - i)
       /\ \A j \in 0..(frame - 1) : frames'[j] = frames[j]
       /\ UNCHANGED <<stack, stackTop>>]_vars

\* C8: CALL argc on a function whose arity is not argc ends the run with
\* RUNTIME_ERROR, and the function does not start.
C8_ArityMismatch ==
  [][(CallStep /\ heap[peek(operand + 1).n].arity # operand) =>
       /\ result' = "RUNTIME_ERROR"
       /\ ~running']_vars

\* OP_RETURN is the next instruction, in a frame above frames[0], with a
\* return value on the stack.
ReturnStep ==
  /\ Ready
  /\ instruction = "OP_RETURN"
  /\ frame > 0
  /\ Has(1)

\* C9: RETURN in a frame other than frames[0] leaves the return value on
\* top of the stack at the depth of the frame's slots plus one, pops one
\* frame, and goes on in the caller after the operand of its CALL.
C9_ReturnResumesCaller ==
  [][ReturnStep =>
       /\ stackTop' = cur.slots + 1
       /\ stack'[cur.slots] = peek(1)
       /\ frame' = frame - 1
       /\ running'
       /\ frames'[frame'].function # NULL
       /\ frames'[frame'].ip >= 2
       /\ heap[frames'[frame'].function].code[frames'[frame'].ip - 1].op
            = "OP_CALL"]_vars

\* C10: RETURN in frames[0] ends the run, and the current frame is never
\* below frames[0].
C10_BaseReturnHalts ==
  [][(Ready /\ instruction = "OP_RETURN" /\ frame = 0 /\ Has(1)) =>
       /\ ~running'
       /\ frame' = 0]_vars

\* OP_GET_GLOBAL is the next instruction; its operand names GlobalName.
GetGlobalStep ==
  /\ Ready
  /\ instruction = "OP_GET_GLOBAL"
  /\ operand < Len(chunk.constants)
GlobalName == chunk.constants[operand + 1].s

\* C11: once DEFINE_GLOBAL has bound a name, GET_GLOBAL of the name pushes
\* the value last defined under it, whatever other names were defined in
\* between and however often the table grew.
C11_GlobalsRoundTrip ==
  [][(GetGlobalStep /\ GlobalName \in DOMAIN defined) =>
       /\ fault' = "none"
       /\ running'
       /\ stackTop' = stackTop + 1
       /\ stack'[stackTop] = defined[GlobalName]]_vars

\* C12: GET_GLOBAL of a name that was never defined ends the run with
\* RUNTIME_ERROR and pushes nothing, whatever other names the table holds.
C12_UndefinedGlobalFails ==
  [][(GetGlobalStep /\ GlobalName \notin DOMAIN defined) =>
       /\ result' = "RUNTIME_ERROR"
       /\ ~running'
       /\ stackTop' <= stackTop]_vars

\* A BINARY_OP instruction is next and both of its operands are on the
\* stack.
BinaryStep ==
  /\ Ready
  /\ instruction \in BinaryOps
  /\ Has(2)
BothNumbers == IS_NUMBER(peek(1)) /\ IS_NUMBER(peek(2))
BothStrings == IS_STRING(peek(1)) /\ IS_STRING(peek(2))

\* C13: an arithmetic operator whose operands are neither two numbers nor
\* two strings ends the interpret call with RUNTIME_ERROR: the stack is
\* reset to empty, and nothing after it executes or prints.
C13_TypeMismatchAborts ==
  [][(BinaryStep /\ ~BothNumbers /\ ~BothStrings) =>
       /\ result' = "RUNTIME_ERROR"
       /\ ~running'
       /\ stackTop' = 0
       /\ out' = out]_vars

\* C13's case: the run has ended with RUNTIME_ERROR right after a binary
\* operator, the stack is empty and nothing was printed.
C13_Witness ==
  /\ result = "RUNTIME_ERROR"
  /\ ~running
  /\ stackTop = 0
  /\ out = <<>>
  /\ cur.function # NULL
  /\ cur.ip >= 1
  /\ chunk.code[cur.ip].op \in BinaryOps

\* C14: of the BINARY_OP instructions only ADD takes two strings; every
\* other one, given operands that are not two numbers, ends the run with
\* RUNTIME_ERROR and pushes no string.
C14_OnlyAddConcatenates ==
  [][(BinaryStep /\ instruction # "OP_ADD" /\ ~BothNumbers) =>
       /\ result' = "RUNTIME_ERROR"
       /\ ~running']_vars

K(i) == <<Op("OP_CONSTANT"), Byte(i)>>

\* The compiled source text is 1 op1 2 op2 3.
TwoOperators == parsed.kind = "chain" /\ Len(parsed.p.toks) = 5
Op1 == parsed.p.toks[2].type
Op2 == parsed.p.toks[4].type

\* The precedence levels as the language orders them: conditional below
\* sum below product.
Level(type) ==
  CASE type \in {"TOK_PLUS", "TOK_MINUS"} -> 2
    [] type \in {"TOK_MULTIPLY", "TOK_DIVIDE"} -> 3
    [] OTHER -> 1

\* C16: two operators of the same precedence are compiled
\* right-associatively: a OP1 b OP2 c is emitted as a, b, c, OP2, OP1.
C16_RightAssociative ==
  (TwoOperators /\ Level(Op1) = Level(Op2)) =>
    parsed.p.code = K(0) \o K(1) \o K(2)
                      \o <<Op(InfixOpcode(Op2)), Op(InfixOpcode(Op1)),
                           Op("OP_EXIT")>>

\* C17: of two operators of different precedence the one of higher
\* precedence is emitted first, whichever comes first in the source.
C17_PrecedenceOrder ==
  TwoOperators =>
    /\ Level(Op1) < Level(Op2) =>
         parsed.p.code = K(0) \o K(1) \o K(2)
                           \o <<Op(InfixOpcode(Op2)), Op(InfixOpcode(Op1)),
                                Op("OP_EXIT")>>
    /\ Level(Op1) > Level(Op2) =>
         parsed.p.code = K(0) \o K(1) \o <<Op(InfixOpcode(Op1))>> \o K(2)
                           \o <<Op(InfixOpcode(Op2)), Op("OP_EXIT")>>

\* C17's case: 1 + 2 * 3 has been compiled, to 1, 2, 3, MUL, ADD.
C17_Witness ==
  /\ TwoOperators
  /\ Op1 = "TOK_PLUS"
  /\ Op2 = "TOK_MULTIPLY"
  /\ ~parsed.p.hasError
  /\ parsed.p.code[7].op = "OP_MULTIPLY"
  /\ parsed.p.code[8].op = "OP_ADD"

\* C18: a name declared by let inside a block is a local with a stack slot
\* of its own, and a reference to it inside the block compiles to GET_LOCAL
\* and not to GET_GLOBAL.
C18_LocalsResolve ==
  parsed.kind = "block" =>
    /\ \A i \in DOMAIN parsed.p.code : parsed.p.code[i].op # "OP_GET_GLOBAL"
    /\ \E i \in DOMAIN parsed.p.code : parsed.p.code[i].op = "OP_GET_LOCAL"

\* C19: a constant that would get index 256 or more is a compile error, so
\* the operand byte after each OP_CONSTANT is the index of its constant.
C19_ConstantPoolBounded ==
  parsed.kind = "literals" =>
    /\ Len(parsed.p.constants) > 256 => parsed.p.hasError
    /\ ~parsed.p.hasError =>
         \A k \in 1..Len(parsed.p.constants) : parsed.p.code[2 * k].b = k - 1

\* The compiler has read the whole source text.
AllConsumed(p) == p.pos > Len(p.toks) /\ p.current.type = "TOK_EOF"

\* The invalid characters of a source text.
ErrorTokens(toks) == {i \in DOMAIN toks : toks[i].type = "TOK_ERROR"}

\* C20: an error does not end the compilation: the compiler goes on to the
\* end of the source text.
C20_CompilesToEOF ==
  parsed.kind = "lines" => AllConsumed(parsed.p)

\* C20, amended: an error sets hasError and the compiler goes on with the
\* next line, so that every invalid character of the text is reported,
\* unless what it parsed as a statement is followed by a token that is not
\* a newline: then it reports that and stops there.
C20_ErrorsDoNotStop ==
  parsed.kind = "lines" =>
    /\ parsed.p.hasError <=> parsed.p.errors > 0
    /\ \/ AllConsumed(parsed.p)
       \/ /\ parsed.p.hasError
          /\ parsed.p.previous.type \notin {"TOK_NEWLINE", "TOK_EOF"}
    /\ AllConsumed(parsed.p) =>
         parsed.p.errors >= Cardinality(ErrorTokens(parsed.p.toks))

\* C20's case: two lines, each an invalid character, both reported, and
\* the compiler at the end of the text.
C20_Witness ==
  /\ parsed.kind = "lines"
  /\ AllConsumed(parsed.p)
  /\ Cardinality(ErrorTokens(parsed.p.toks)) = 2
  /\ parsed.p.errors >= 2
  /\ Len(parsed.p.marks) = 2

\* How often freeChunk was called on the chunk of the function object i.
ChunkFrees(i) == Cardinality({k \in DOMAIN freed.chunks : freed.chunks[k] = i})

\* C21: after obaFreeVM every object allocated by the interpret calls made
\* on the VM has been released exactly once: the chunk of every compiled
\* function, not only that of the current frame, and the function objects
\* themselves.
C21_FreeReleasesAll ==
  freed.vm =>
    \A i \in DOMAIN heap : ChunkFrees(i) = 1 /\ i \in freed.objects

\* C29: obaFreeVM reads no function through a NULL pointer and releases
\* nothing that was not allocated, whether or not interpret was called on
\* the VM and whatever the last call returned.
C29_FreeIsSafe ==
  /\ fault # "free_null_function"
  /\ \A k \in DOMAIN freed.chunks : freed.chunks[k] \in DOMAIN heap

\* OP_CALL is the next instruction and its callee is a closure.
ClosureCallStep ==
  /\ Ready
  /\ instruction = "OP_CALL"
  /\ Has(operand + 1)
  /\ IS_CLOSURE(peek(operand + 1))

\* C22: a closure that a function has returned can be called afterwards:
\* CALL on a closure starts the closure's function in a new frame, where it
\* reads the variables it captured.
C22_ClosureCallable ==
  [][ClosureCallStep =>
       /\ running'
       /\ result' # "RUNTIME_ERROR"
       /\ frame' = frame + 1
       /\ frames'[frame'].function = peek(operand + 1).n]_vars

\* The run of the program that calls the closure of the matching function
\* with the name a has ended.
VectorDone ==
  /\ heap # <<>>
  /\ heap[Len(heap)].code = VectorScript
  /\ heap[Len(heap) - 2].code = VectorMatch
  /\ ~running
  /\ result # "NONE"
  /\ ~freed.vm

\* C23: calling a closure with a coordinate name selects the match arm
\* whose pattern equals the name and yields that arm's value: the run
\* succeeds and the value printed last is the one of the arm.
C23_ClosureMatchSelectsArm ==
  VectorDone =>
    /\ fault = "none"
    /\ result = "SUCCESS"
    /\ out # <<>>
    /\ out[Len(out)] = OBA_NUMBER(1)

JumpIfStep ==
  /\ Ready
  /\ instruction \in {"OP_JUMP_IF_FALSE", "OP_JUMP_IF_TRUE"}
  /\ Has(1)

\* The condition on top of the stack is the one the instruction jumps on.
JumpTaken ==
  IF instruction = "OP_JUMP_IF_FALSE" THEN ~AS_BOOL(peek(1))
  ELSE AS_BOOL(peek(1))

\* The two operand bytes as a big-endian number.
BigEndianOffset ==
  chunk.code[cur.ip + 2].b * 256 + chunk.code[cur.ip + 3].b

\* C25: JUMP_IF_FALSE and JUMP_IF_TRUE on a boolean leave the stack as it
\* is, move the ip past the two operand bytes and add the big-endian
\* offset exactly when the top is false, respectively true; on a value
\* that is not a boolean they end the run with RUNTIME_ERROR and do not
\* jump.
C25_ConditionalJumpsPeek ==
  [][JumpIfStep =>
       /\ IS_BOOL(peek(1)) =>
            /\ UNCHANGED <<stack, stackTop, frame>>
            /\ running'
            /\ frames'[frame].ip
                 = cur.ip + 3 + (IF JumpTaken THEN BigEndianOffset ELSE 0)
       /\ ~IS_BOOL(peek(1)) =>
            /\ result' = "RUNTIME_ERROR"
            /\ ~running'
            /\ frames'[frame].ip <= cur.ip + 3]_vars

\* C25's case: JUMP_IF_FALSE with offset 1 has just jumped over one byte,
\* and the false it tested is still on top of the stack.
C25_Witness ==
  /\ running
  /\ frame \in 0..(FRAMES_MAX - 1)
  /\ cur.function # NULL
  /\ cur.ip >= 5
  /\ cur.ip <= Len(chunk.code)
  /\ chunk.code[cur.ip - 3].op = "OP_JUMP_IF_FALSE"
  /\ chunk.code[cur.ip - 2].b = 0
  /\ chunk.code[cur.ip - 1].b = 1
  /\ chunk.code[cur.ip].op = "OP_POP"
  /\ stackTop >= 1
  /\ peek(1) = OBA_BOOL(FALSE)

\* C26: every opcode the compiler emits has a case in the switch of
\* run(): the loop never comes to an opcode byte it has no case for, which
\* it would step over without any effect.
C26_OpcodeSetComplete ==
  Ready => instruction \in Handled

\* OP_DEFINE_GLOBAL is the next instruction, with its value on the stack.
DefineGlobalStep ==
  /\ Ready
  /\ instruction = "OP_DEFINE_GLOBAL"
  /\ operand < Len(chunk.constants)
  /\ Has(1)

RECURSIVE SmallestCapacity(_, _)
\* The smallest of cap, 2 cap, 4 cap, ... that holds count entries at a
\* load of at most 0.75.
SmallestCapacity(cap, count) ==
  IF 4 * count <= 3 * cap THEN cap ELSE SmallestCapacity(2 * cap, count)

\* C27: tableSet leaves the capacity as it is when the table with the new
\* entry stays within the load of 0.75, so that a table with entries has
\* the smallest capacity of 8, 16, 32, ... that holds them at that load.
C27_GrowsOnlyWhenNeeded ==
  /\ [][(DefineGlobalStep
           /\ 4 * (globals.count + 1) <= 3 * globals.capacity) =>
          globals'.capacity = globals.capacity]_vars
  /\ [](globals.count > 0 =>
          globals.capacity = SmallestCapacity(8, globals.count))

\* C28: the lexer never reads a character after the terminating NUL of the
\* source text, and every call of nextToken either moves past at least one
\* character or yields TOK_EOF, also when the text ends inside a string
\* without closing quote or inside a line comment.
C28_LexerStaysInSource ==
  /\ [](parsed.kind = "lexing" =>
          /\ ~parsed.p.overrun
          /\ parsed.p.cur <= Len(parsed.p.src) + 1)
  /\ [][(parsed.kind = "lexing" /\ parsed'.kind = "lexing") =>
          \/ parsed'.p.cur > parsed.p.cur
          \/ parsed'.p.type = "TOK_EOF"]_vars

\* C30: localCount is never negative, and once the block of a source text
\* that is one block has closed, localCount and currentScope are back at
\* the values they had when the block was entered, which are both 0.
C30_LocalsFollowScopes ==
  /\ parsed.kind \in {"block", "chain", "lines", "literals"} =>
       parsed.p.localCount >= 0
  /\ (parsed.kind = "block" /\ ~parsed.p.hasError) =>
       /\ parsed.p.currentScope = 0
       /\ parsed.p.localCount = 0

====
